---- MODULE Spec2Model ----
(***************************************************************************)
(* Model of servertest.py: a FastAPI service with four request handlers    *)
(* (evaluate, process_audio, live_transcribe, get_summary) and a root      *)
(* probe, sharing one module-level list, buffered_transcripts.             *)
(*                                                                         *)
(* The handlers are coroutines on one event loop: a handler runs without   *)
(* interruption up to its next `await`.  The only await in the file is     *)
(* `await audio.read()` (lines 60 and 85), so process_audio and            *)
(* live_transcribe are two steps each, and evaluate, get_summary and root  *)
(* are one step each.  The model pipelines are blocking calls.             *)
(*                                                                         *)
(* Text is a sequence of one-character strings.                            *)
(***************************************************************************)
EXTENDS Integers, Sequences, FiniteSets, TLC

VARIABLES
    buffered_transcripts, \* the module-level list of line 32
    pc,                   \* per request: "idle", "reading" (suspended in await audio.read()), "done"
    handler,              \* per request: the endpoint it was dispatched to
    input,                \* per request: the body (evaluate) or upload name (process_audio) it carried
    tmp,                  \* per request: tmp.name of the NamedTemporaryFile it created
    temp_path,            \* per request: the local temp_path (line 61 / 86)
    files,                \* the temporary files that exist on disk
    removes,              \* per request: number of os.remove calls it made
    asrCalls,             \* per request: log of its calls of the ASR pipeline (what each returned)
    summarizerCalls,      \* log of the calls of the summarization pipeline (arguments, and whether it raised)
    response,             \* per request: what the client got
    appended,             \* history: every fragment appended to the buffer, in order
    drained,              \* history: the list contents read by each get_summary
    pending               \* history: transcripts returned by live_transcribe since the last get_summary

vars == <<buffered_transcripts, pc, handler, input, tmp, temp_path, files, removes,
          asrCalls, summarizerCalls, response, appended, drained, pending>>

----------------------------------------------------------------------------
(* Bounds of the model *)

MaxRequests == 4      \* requests in one run
MaxWords == 200       \* longest transcription, in words (SpecLen)
MaxFieldPad == 40     \* how far the combined text of an evaluate request strays from the budget (SpecEval)
FieldLen == 300       \* length of a long criteria or brief field (SpecEval)

Reqs == 1..MaxRequests

(* Program constants *)

MaxChars == 1024          \* line 43-44
EvalMaxLength == 120      \* line 48
EvalMinLength == 50       \* line 48
ShortWords == 60          \* line 68
LongWords == 120          \* line 69
ShortMinLen == 10         \* line 68
LongMinLen == 50          \* line 68
ShortMaxLen == 50         \* line 69
LongMaxLen == 120         \* line 69
SummaryMaxLength == 120   \* line 106
SummaryMinLength == 50    \* line 106

----------------------------------------------------------------------------
(* Text helpers: str.strip, str.split, str.join, slicing *)

Whitespace == {" ", "\n", "\t"}

RECURSIVE LStrip(_)
LStrip(s) == IF s = <<>> \/ Head(s) \notin Whitespace THEN s ELSE LStrip(Tail(s))

RECURSIVE RStrip(_)
RStrip(s) ==
    IF s = <<>> \/ s[Len(s)] \notin Whitespace THEN s
    ELSE RStrip(SubSeq(s, 1, Len(s) - 1))

Strip(s) == RStrip(LStrip(s))

\* s.split(): the maximal runs of non-whitespace characters, in order.
\* WordAt(s, i) is the run that starts at i; SplitRange collects the runs that
\* start in lo..hi, left to right.
WordAt(s, i) ==
    LET end == CHOOSE j \in i..Len(s) :
                   /\ s[j] \notin Whitespace
                   /\ (j = Len(s) \/ s[j + 1] \in Whitespace)
    IN SubSeq(s, i, end)

RECURSIVE SplitRange(_, _, _)
SplitRange(s, lo, hi) ==
    IF lo > hi THEN <<>>
    ELSE IF lo = hi
         THEN IF s[lo] \notin Whitespace /\ (lo = 1 \/ s[lo - 1] \in Whitespace)
              THEN <<WordAt(s, lo)>> ELSE <<>>
         ELSE LET mid == (lo + hi) \div 2
              IN SplitRange(s, lo, mid) \o SplitRange(s, mid + 1, hi)

Split(s) == SplitRange(s, 1, Len(s))

JoinNoSeparator(parts) ==
    LET RECURSIVE Cat(_)
        Cat(ps) == IF ps = <<>> THEN <<>> ELSE Head(ps) \o Cat(Tail(ps))
    IN Cat(parts)

\* " ".join(parts)
Join(parts) ==
    LET RECURSIVE J(_)
        J(ps) == IF ps = <<>> THEN <<>>
                 ELSE IF Len(ps) = 1 THEN Head(ps)
                 ELSE Head(ps) \o <<" ">> \o J(Tail(ps))
    IN J(parts)

TruncateShort(combined) ==
    IF Len(combined) > MaxChars THEN SubSeq(combined, 1, MaxChars - 1) ELSE combined

\* lines 43-44: if len(combined) > 1024: combined = combined[:1024]
Truncate(combined) ==
    IF Len(combined) > MaxChars THEN SubSeq(combined, 1, MaxChars) ELSE combined

\* line 42: the f-string with its three labelled sections
CriteriaLabel == <<"C","r","i","t","e","r","i","a",":","\n">>
BriefLabel == <<"\n","\n","B","r","i","e","f",":","\n">>
AssignmentLabel == <<"\n","\n","A","s","s","i","g","n","m","e","n","t",":","\n">>

Combined(data) ==
    CriteriaLabel \o data.criteria \o BriefLabel \o data.brief
        \o AssignmentLabel \o data.assignment

\* os.path.splitext(name)[1]: from the last dot of the name, unless only dots precede it
SplitExt(name) ==
    LET dots == {i \in 1..Len(name) : name[i] = "."}
        last == CHOOSE i \in dots : \A j \in dots : j <= i
    IN IF dots = {} THEN <<>>
       ELSE IF \A j \in 1..(last - 1) : name[j] = "." THEN <<>>
       ELSE SubSeq(name, last, Len(name))

\* lines 55-57
Extension(filename) ==
    LET ext == SplitExt(filename) IN IF ext = <<>> THEN <<".","w","a","v">> ELSE ext

WebmExt == <<".","w","e","b","m">>

MinLenOffByOne(wc) == IF wc <= ShortWords THEN ShortMinLen ELSE LongMinLen

\* line 68
MinLen(wc) == IF wc < ShortWords THEN ShortMinLen ELSE LongMinLen

\* line 69
MaxLen(wc) == IF wc < LongWords THEN ShortMaxLen ELSE LongMaxLen

FalsyNever(text) == FALSE

\* line 101: not full_text
Falsy(text) == Len(text) = 0

BufferPrepend(buf, text) == <<text>> \o buf

\* line 90: buffered_transcripts.append(text)
BufferAppend(buf, text) == Append(buf, text)

BufferKept(buf) == buf

\* line 100: buffered_transcripts.clear()
BufferClear(buf) == <<>>

OsRemoveSkipped(fs, path) == fs

\* lines 80 and 95: os.remove(temp_path)
OsRemove(fs, path) == fs \ {path}

LiveBufferAppendsOnFailure(buf, out) ==
    BufferAppend(buf, IF out.ok THEN Strip(out.text) ELSE <<>>)

\* lines 88-93: the buffer after the try block, given what the ASR call did
LiveBuffer(buf, out) == IF out.ok THEN BufferAppend(buf, Strip(out.text)) ELSE buf

----------------------------------------------------------------------------
(* The collaborators: what a pipeline call can do *)

NoPath == <<>>
NoResponse == [status |-> "none"]

\* get_asr()(temp_path): raises, or returns a dict with a "text"
AsrOutcomes(Texts) == {[ok |-> FALSE]} \cup {[ok |-> TRUE, text |-> t] : t \in Texts}

Summaries == {<<"s">>}

\* get_summarizer()(text, ...): raises, or returns [{"summary_text": ...}]
SummarizerOutcomes ==
    {[ok |-> FALSE]} \cup {[ok |-> TRUE, summary_text |-> s] : s \in Summaries}

SummarizerCall(r, text, minLength, maxLength, out) ==
    [req |-> r, text |-> text, min_length |-> minLength, max_length |-> maxLength,
     ok |-> out.ok]

ServiceError(detail) == [status |-> "service_error", detail |-> detail]

----------------------------------------------------------------------------
(* Inputs *)

\* what the ASR pipeline may return for a chunk sent to live_transcribe
RawTexts == {<<" ">>, <<" ", "a">>, <<"b", " ", "c", "\n">>}

\* what it may return for an upload sent to process_audio
AudioTexts == {<<" ", "a", "\t", "b">>}

\* upload names: with an extension, without one, and a dot-file
Filenames == {<<"a", ".", "m">>, <<"a">>, <<".", "m">>}

\* the upload name used where requests run concurrently
ChunkNames == {<<"a", ".", "m">>}

SmallFields ==
    {[criteria |-> <<"x">>, brief |-> <<>>, assignment |-> <<"y", "z">>]}

\* transcriptions of n one-letter words, w separator characters c between two words
Text(n, w, c, lead) ==
    lead \o [i \in 1..(n + (n - 1) * w) |-> IF (i - 1) % (1 + w) = 0 THEN "a" ELSE c]

LongTexts ==
    {Text(n, w, c, lead) : n \in 0..MaxWords, w \in {1, 2}, c \in {" ", "\n"},
                           lead \in {<<>>, <<" ">>}}

Fill(n, c, d) == [i \in 1..n |-> IF i % 2 = 1 THEN c ELSE d]

\* the field characters that fit the budget beside the labels
Budget == MaxChars - Len(CriteriaLabel) - Len(BriefLabel) - Len(AssignmentLabel)

AssignmentLens ==
    {0, 1, Budget - 1, Budget, Budget + 1}
        \cup {n \in 0..(Budget + MaxFieldPad) :
                /\ n >= Budget - 2 * FieldLen - MaxFieldPad
                /\ n <= Budget - 2 * FieldLen + MaxFieldPad}

BigFields ==
    {[criteria |-> Fill(a, "x", "X"), brief |-> Fill(b, "y", "\n"),
      assignment |-> Fill(c, "z", " ")] :
        a \in {0, 1, FieldLen}, b \in {0, 2, FieldLen}, c \in AssignmentLens}

Init ==
    /\ buffered_transcripts = <<>>
    /\ pc = [r \in Reqs |-> "idle"]
    /\ handler = [r \in Reqs |-> "none"]
    /\ input = [r \in Reqs |-> <<>>]
    /\ tmp = [r \in Reqs |-> NoPath]
    /\ temp_path = [r \in Reqs |-> NoPath]
    /\ files = {}
    /\ removes = [r \in Reqs |-> 0]
    /\ asrCalls = [r \in Reqs |-> <<>>]
    /\ summarizerCalls = <<>>
    /\ response = [r \in Reqs |-> NoResponse]
    /\ appended = <<>>
    /\ drained = <<>>
    /\ pending = <<>>

\* Requests are numbered in the order the server dispatches them.
Arrives(r) == pc[r] = "idle" /\ \A q \in Reqs : q < r => pc[q] # "idle"

\* lines 111-113
Root(r) ==
    /\ Arrives(r)
    /\ pc' = [pc EXCEPT ![r] = "done"]
    /\ handler' = [handler EXCEPT ![r] = "root"]
    /\ response' = [response EXCEPT ![r] = [status |-> "ok", message |-> "up"]]
    /\ UNCHANGED <<buffered_transcripts, input, tmp, temp_path, files, removes, asrCalls,
                   summarizerCalls, appended, drained, pending>>

\* lines 40-51
Evaluate(r, Fields) ==
    /\ Arrives(r)
    /\ \E data \in Fields, out \in SummarizerOutcomes :
         LET combined == Truncate(Combined(data)) IN
         /\ summarizerCalls' = Append(summarizerCalls,
                SummarizerCall(r, combined, EvalMinLength, EvalMaxLength, out))
         /\ response' = [response EXCEPT ![r] =
                IF out.ok THEN [status |-> "ok", feedback |-> out.summary_text]
                ELSE ServiceError("Summarization failed")]
         /\ input' = [input EXCEPT ![r] = data]
    /\ pc' = [pc EXCEPT ![r] = "done"]
    /\ handler' = [handler EXCEPT ![r] = "evaluate"]
    /\ UNCHANGED <<buffered_transcripts, tmp, temp_path, files, removes, asrCalls,
                   appended, drained, pending>>

\* lines 54-60, up to the await: the temporary file is created (delete=False)
ProcessAudioStart(r, Names) ==
    /\ Arrives(r)
    /\ \E filename \in Names :
         LET name == <<r>> \o Extension(filename) IN
         /\ tmp' = [tmp EXCEPT ![r] = name]
         /\ files' = files \cup {name}
         /\ input' = [input EXCEPT ![r] = filename]
    /\ pc' = [pc EXCEPT ![r] = "reading"]
    /\ handler' = [handler EXCEPT ![r] = "process_audio"]
    /\ UNCHANGED <<buffered_transcripts, temp_path, removes, asrCalls,
                   summarizerCalls, response, appended, drained, pending>>

\* lines 83-85, up to the await
LiveTranscribeStart(r) ==
    /\ Arrives(r)
    /\ LET name == <<r>> \o WebmExt IN
         /\ tmp' = [tmp EXCEPT ![r] = name]
         /\ files' = files \cup {name}
    /\ pc' = [pc EXCEPT ![r] = "reading"]
    /\ handler' = [handler EXCEPT ![r] = "live_transcribe"]
    /\ UNCHANGED <<buffered_transcripts, input, temp_path, removes, asrCalls,
                   summarizerCalls, response, appended, drained, pending>>

\* lines 59-60 and 84-85: audio.read() or tmp.write() raises. The with block
\* closes the file (delete=False keeps it) and the exception leaves the handler
\* before the try statement is entered.
StagingFail(r) ==
    /\ pc[r] = "reading"
    /\ pc' = [pc EXCEPT ![r] = "done"]
    /\ response' = [response EXCEPT ![r] = [status |-> "unhandled"]]
    /\ UNCHANGED <<buffered_transcripts, handler, input, tmp, temp_path, files, removes,
                   asrCalls, summarizerCalls, appended, drained, pending>>

\* lines 60-80, from the await on
ProcessAudioRun(r, Texts) ==
    /\ pc[r] = "reading"
    /\ handler[r] = "process_audio"
    /\ temp_path' = [temp_path EXCEPT ![r] = tmp[r]]
    /\ \E asr \in AsrOutcomes(Texts) :
         /\ asrCalls' = [asrCalls EXCEPT ![r] = Append(@, asr)]
         /\ IF asr.ok
            THEN LET transcription == Strip(asr.text)
                     wc == Len(Split(transcription))
                 IN \E out \in SummarizerOutcomes :
                      /\ summarizerCalls' = Append(summarizerCalls,
                             SummarizerCall(r, transcription, MinLen(wc), MaxLen(wc), out))
                      /\ response' = [response EXCEPT ![r] =
                             IF out.ok
                             THEN [status |-> "ok", transcription |-> transcription,
                                   summary |-> out.summary_text]
                             ELSE ServiceError("ASR or summarization failed")]
            ELSE /\ summarizerCalls' = summarizerCalls
                 /\ response' = [response EXCEPT ![r] =
                        ServiceError("ASR or summarization failed")]
    /\ files' = OsRemove(files, tmp[r])
    /\ removes' = [removes EXCEPT ![r] = @ + 1]
    /\ pc' = [pc EXCEPT ![r] = "done"]
    /\ UNCHANGED <<buffered_transcripts, handler, input, tmp, appended, drained, pending>>

\* lines 85-95, from the await on
LiveTranscribeRun(r, Texts) ==
    /\ pc[r] = "reading"
    /\ handler[r] = "live_transcribe"
    /\ temp_path' = [temp_path EXCEPT ![r] = tmp[r]]
    /\ \E asr \in AsrOutcomes(Texts) :
         /\ asrCalls' = [asrCalls EXCEPT ![r] = Append(@, asr)]
         /\ buffered_transcripts' = LiveBuffer(buffered_transcripts, asr)
         /\ response' = [response EXCEPT ![r] =
                IF asr.ok THEN [status |-> "ok", transcript |-> Strip(asr.text)]
                ELSE ServiceError("Live transcription failed")]
         /\ appended' = IF buffered_transcripts' = buffered_transcripts THEN appended
                        ELSE Append(appended,
                                    buffered_transcripts'[Len(buffered_transcripts')])
         /\ pending' = IF asr.ok THEN Append(pending, Strip(asr.text)) ELSE pending
    /\ files' = OsRemove(files, tmp[r])
    /\ removes' = [removes EXCEPT ![r] = @ + 1]
    /\ pc' = [pc EXCEPT ![r] = "done"]
    /\ UNCHANGED <<handler, input, tmp, summarizerCalls, drained>>

\* lines 97-109
GetSummary(r) ==
    /\ Arrives(r)
    /\ LET full_text == Join(buffered_transcripts) IN
         /\ drained' = Append(drained, buffered_transcripts)
         /\ buffered_transcripts' = BufferClear(buffered_transcripts)
         /\ IF Falsy(full_text)
            THEN /\ summarizerCalls' = summarizerCalls
                 /\ response' = [response EXCEPT ![r] =
                        [status |-> "ok", summary |-> <<>>]]
            ELSE \E out \in SummarizerOutcomes :
                   /\ summarizerCalls' = Append(summarizerCalls,
                          SummarizerCall(r, full_text, SummaryMinLength, SummaryMaxLength, out))
                   /\ response' = [response EXCEPT ![r] =
                          IF out.ok THEN [status |-> "ok", summary |-> out.summary_text]
                          ELSE ServiceError("Summary failed")]
    /\ pending' = <<>>
    /\ pc' = [pc EXCEPT ![r] = "done"]
    /\ handler' = [handler EXCEPT ![r] = "get_summary"]
    /\ UNCHANGED <<input, tmp, temp_path, files, removes, asrCalls, appended>>

Next ==
    \E r \in Reqs :
        \/ Root(r)
        \/ Evaluate(r, SmallFields)
        \/ ProcessAudioStart(r, ChunkNames)
        \/ LiveTranscribeStart(r)
        \/ StagingFail(r)
        \/ ProcessAudioRun(r, AudioTexts)
        \/ LiveTranscribeRun(r, RawTexts)
        \/ GetSummary(r)

Spec == Init /\ [][Next]_vars

\* One process_audio request over long transcriptions (the length bands).
NextLen ==
    \/ ProcessAudioStart(1, Filenames)
    \/ StagingFail(1)
    \/ ProcessAudioRun(1, LongTexts)

SpecLen == Init /\ [][NextLen]_vars

\* One evaluate request over bodies around the character budget.
NextEval == Evaluate(1, BigFields)

SpecEval == Init /\ [][NextEval]_vars

----------------------------------------------------------------------------
(* Properties *)

Done(r) == pc[r] = "done"

\* request r is past its staging: the with block of lines 59-61 / 84-86 completed
Staged(r) == temp_path[r] # NoPath

\* the step in which request g runs get_summary
GetSummaryStep(g) == pc[g] = "idle" /\ pc'[g] = "done" /\ handler'[g] = "get_summary"

\* the step in which live_transcribe request r runs its try statement
LiveRunStep(r) ==
    /\ handler[r] = "live_transcribe"
    /\ pc[r] = "reading" /\ pc'[r] = "done"
    /\ temp_path'[r] # NoPath

\* the lists of a sequence of lists, one after the other
RECURSIVE Concat(_)
Concat(lists) == IF lists = <<>> THEN <<>> ELSE Head(lists) \o Concat(Tail(lists))

\* f1 + " " + f2 + ... + " " + fn
RECURSIVE Spaced(_)
Spaced(fs) ==
    IF fs = <<>> THEN <<>>
    ELSE IF Len(fs) = 1 THEN fs[1]
    ELSE Spaced(SubSeq(fs, 1, Len(fs) - 1)) \o <<" ">> \o fs[Len(fs)]

\* number of whitespace-delimited tokens of s
WordCount(s) ==
    Cardinality({i \in 1..Len(s) :
        s[i] \notin Whitespace /\ (i = 1 \/ s[i - 1] \in Whitespace)})

\* C1: under every interleaving of live_transcribe and get_summary requests no
\* fragment is lost or duplicated: the fragments appended so far are, in order and
\* each exactly once, the fragments read by the drains so far followed by the
\* fragments still in the buffer; and every drain that read something handed the
\* summarizer the joined text of what it read.
C1_NoLossNoDuplication ==
    /\ appended = Concat(drained) \o buffered_transcripts
    /\ Len(drained) = Cardinality({g \in Reqs : handler[g] = "get_summary"})
    /\ \A i \in 1..Len(summarizerCalls) :
         handler[summarizerCalls[i].req] = "get_summary" =>
            \E k \in 1..Len(drained) : summarizerCalls[i].text = Spaced(drained[k])

\* A live_transcribe that was suspended in its upload read while a get_summary
\* drained an earlier fragment, and appended afterwards.
C1_Witness ==
    \E r, g \in Reqs :
        /\ r < g
        /\ handler[r] = "live_transcribe" /\ Done(r) /\ response[r].status = "ok"
        /\ handler[g] = "get_summary" /\ Done(g)
        /\ \A q \in Reqs : q > g => pc[q] = "idle"
        /\ Len(appended) = 2
        /\ drained = << <<appended[1]>> >>
        /\ buffered_transcripts = <<response[r].transcript>>
        /\ appended[2] = response[r].transcript

\* C2 as stated: after live_transcribe returned f1..fn (n >= 1) with no get_summary
\* in between, the next get_summary submits exactly f1 + " " + ... + " " + fn to the
\* summarizer and empties the buffer; one issued right after it returns the empty
\* summary.
C2_AlwaysSubmitsJoin ==
    [][\A g \in Reqs : GetSummaryStep(g) =>
          /\ buffered_transcripts' = <<>>
          /\ IF pending # <<>>
             THEN /\ Len(summarizerCalls') = Len(summarizerCalls) + 1
                  /\ summarizerCalls'[Len(summarizerCalls')].req = g
                  /\ summarizerCalls'[Len(summarizerCalls')].text = Spaced(pending)
             ELSE /\ summarizerCalls' = summarizerCalls
                  /\ response'[g] = [status |-> "ok", summary |-> <<>>]]_vars

\* C2, amended: the same, except that when the joined text is empty (one fragment,
\* itself empty) nothing is submitted and the empty summary is returned.
C2_SubmitsNonEmptyJoin ==
    [][\A g \in Reqs : GetSummaryStep(g) =>
          /\ buffered_transcripts' = <<>>
          /\ SubSeq(summarizerCalls', 1, Len(summarizerCalls)) = summarizerCalls
          /\ IF Spaced(pending) # <<>>
             THEN /\ Len(summarizerCalls') = Len(summarizerCalls) + 1
                  /\ summarizerCalls'[Len(summarizerCalls')].req = g
                  /\ summarizerCalls'[Len(summarizerCalls')].text = Spaced(pending)
             ELSE /\ summarizerCalls' = summarizerCalls
                  /\ response'[g] = [status |-> "ok", summary |-> <<>>]]_vars

\* Two fragments, a get_summary that submitted both with one space between them,
\* and a second get_summary right after it that returned the empty summary.
C2_Witness ==
    /\ \A r \in 1..4 : r \in Reqs /\ Done(r)
    /\ handler[1] = "live_transcribe" /\ handler[2] = "live_transcribe"
    /\ handler[3] = "get_summary" /\ handler[4] = "get_summary"
    /\ response[1].status = "ok" /\ response[2].status = "ok"
    /\ response[1].transcript # <<>> /\ response[2].transcript # response[1].transcript
    /\ Len(summarizerCalls) = 1
    /\ summarizerCalls[1].req = 3
    /\ summarizerCalls[1].text = response[1].transcript \o <<" ">> \o response[2].transcript
    /\ response[4] = [status |-> "ok", summary |-> <<>>]
    /\ buffered_transcripts = <<>>

\* C3: get_summary on an empty buffer returns the empty summary and does not call
\* the summarizer.
C3_EmptyBufferShortCircuits ==
    [][\A g \in Reqs : (GetSummaryStep(g) /\ buffered_transcripts = <<>>) =>
          /\ response'[g] = [status |-> "ok", summary |-> <<>>]
          /\ summarizerCalls' = summarizerCalls]_vars

C3_Witness ==
    \E g \in Reqs :
        /\ handler[g] = "get_summary" /\ Done(g)
        /\ drained = <<<<>>>>
        /\ response[g] = [status |-> "ok", summary |-> <<>>]
        /\ summarizerCalls = <<>>

\* C4: a process_audio or live_transcribe request that got past staging has, when
\* it finishes, removed its temporary file exactly once, whether the pipelines
\* succeeded or raised.
C4_StagedFileRemovedOnce ==
    \A r \in Reqs : (Done(r) /\ Staged(r)) =>
        /\ removes[r] = 1
        /\ temp_path[r] \notin files
        /\ temp_path[r] = tmp[r]

\* A process_audio whose summarize raised, one whose transcribe raised or a
\* live_transcribe whose transcribe raised, and one that succeeded.
C4_Witness ==
    \E p, q, l \in Reqs :
        /\ Done(p) /\ Done(q) /\ Done(l) /\ Staged(p) /\ Staged(q) /\ Staged(l)
        /\ handler[p] = "process_audio" /\ response[p].status = "service_error"
        /\ \E i \in 1..Len(summarizerCalls) :
              summarizerCalls[i].req = p /\ ~summarizerCalls[i].ok
        /\ handler[q] = "live_transcribe" /\ response[q].status = "service_error"
        /\ handler[l] = "process_audio" /\ response[l].status = "ok"
        /\ files = {}

\* C5 as stated: after a request finished by any path, a failure of the upload read
\* or of the write into the new temporary file included, no temporary file it
\* created still exists.
C5_NoTempFileLeftBehind ==
    \A r \in Reqs : Done(r) => (tmp[r] = NoPath \/ tmp[r] \notin files)

\* C6 as stated: a request that ends with a service error leaves the buffer as it
\* was.
C6_FailedRequestLeavesBuffer ==
    [][\A r \in Reqs :
          (pc[r] # "done" /\ pc'[r] = "done" /\ response'[r].status = "service_error")
              => buffered_transcripts' = buffered_transcripts]_vars

\* C7: only get_summary removes fragments. A step of evaluate, process_audio or
\* root leaves the buffer as it is, a step of live_transcribe leaves it or extends
\* it at the end by one fragment, and a step of get_summary empties it; so the
\* buffer goes from non-empty to empty only in a step of get_summary.
C7_OnlyGetSummaryRemoves ==
    [][/\ \A r \in Reqs : pc[r] # pc'[r] =>
             IF handler'[r] = "get_summary" THEN buffered_transcripts' = <<>>
             ELSE IF handler'[r] = "live_transcribe"
             THEN \/ buffered_transcripts' = buffered_transcripts
                  \/ /\ Len(buffered_transcripts') = Len(buffered_transcripts) + 1
                     /\ SubSeq(buffered_transcripts', 1, Len(buffered_transcripts))
                            = buffered_transcripts
             ELSE buffered_transcripts' = buffered_transcripts
       /\ (buffered_transcripts # <<>> /\ buffered_transcripts' = <<>>)
             => \E g \in Reqs : GetSummaryStep(g)]_vars

\* Two different fragments in the buffer, in the order they were appended, with an
\* evaluate or process_audio request finished after the first one was appended.
C7_Witness ==
    /\ Len(buffered_transcripts) = 2
    /\ buffered_transcripts[1] # buffered_transcripts[2]
    /\ handler[1] = "live_transcribe" /\ Done(1) /\ response[1].status = "ok"
    /\ buffered_transcripts[1] = response[1].transcript
    /\ handler[2] \in {"evaluate", "process_audio"} /\ Done(2)
    /\ handler[3] = "live_transcribe" /\ Done(3) /\ response[3].status = "ok"
    /\ buffered_transcripts[2] = response[3].transcript

\* C8: process_audio calls summarize with (min_length, max_length) = (10, 50) for a
\* transcription of fewer than 60 words, (50, 50) for 60 to 119 words and (50, 120)
\* for 120 words or more.
C8_LengthBands ==
    \A i \in 1..Len(summarizerCalls) :
        LET call == summarizerCalls[i]
            wc == WordCount(call.text)
        IN handler[call.req] = "process_audio" =>
             /\ wc < 60 => (call.min_length = 10 /\ call.max_length = 50)
             /\ (60 <= wc /\ wc < 120) => (call.min_length = 50 /\ call.max_length = 50)
             /\ wc >= 120 => (call.min_length = 50 /\ call.max_length = 120)
             /\ asrCalls[call.req] # <<>>
             /\ asrCalls[call.req][1].ok
             /\ wc = WordCount(asrCalls[call.req][1].text)

\* A transcription of exactly 60 words, where the band switches.
C8_Witness ==
    /\ Len(summarizerCalls) = 1
    /\ handler[summarizerCalls[1].req] = "process_audio"
    /\ WordCount(summarizerCalls[1].text) = 60
    /\ summarizerCalls[1].min_length = 50 /\ summarizerCalls[1].max_length = 50

\* C9: every evaluate request submits to summarize the first min(1024, length)
\* characters of its combined labelled text, so at most 1024 characters; it
\* always reaches the summarizer, and ends with an error only if the summarizer
\* raised.
C9_TruncatedToBudget ==
    \A r \in Reqs : (handler[r] = "evaluate" /\ Done(r)) =>
        LET combined == Combined(input[r])
            n == IF Len(combined) < 1024 THEN Len(combined) ELSE 1024
            mine == {i \in 1..Len(summarizerCalls) : summarizerCalls[i].req = r}
        IN /\ Cardinality(mine) = 1
           /\ \A i \in mine :
                /\ Len(summarizerCalls[i].text) <= 1024
                /\ summarizerCalls[i].text = SubSeq(combined, 1, n)
                /\ (response[r].status = "ok") = summarizerCalls[i].ok
                /\ (response[r].status = "service_error") = ~summarizerCalls[i].ok
           /\ SubSeq(combined, 1, Len(CriteriaLabel)) = CriteriaLabel
           /\ Len(combined) = Len(CriteriaLabel) + Len(input[r].criteria)
                + Len(BriefLabel) + Len(input[r].brief)
                + Len(AssignmentLabel) + Len(input[r].assignment)

\* An evaluate request whose combined text is one character over the budget, cut
\* to 1024 characters and answered without error.
C9_Witness ==
    \E r \in Reqs :
        /\ handler[r] = "evaluate" /\ Done(r)
        /\ Len(Combined(input[r])) = 1025
        /\ Len(summarizerCalls[1].text) = 1024
        /\ response[r].status = "ok"

\* C10: live_transcribe appends if and only if its transcribe call succeeded. It
\* calls the ASR pipeline once; if that returned, the buffer grows by one fragment
\* at the end, the stripped text, which is also the transcript in the response; if
\* it raised, the request ends with a service error and the buffer is unchanged.
C10_AppendsIffTranscribed ==
    [][\A r \in Reqs : LiveRunStep(r) =>
          /\ Len(asrCalls'[r]) = 1
          /\ IF asrCalls'[r][1].ok
             THEN /\ response'[r].status = "ok"
                  /\ response'[r].transcript = Strip(asrCalls'[r][1].text)
                  /\ buffered_transcripts' =
                        Append(buffered_transcripts, response'[r].transcript)
             ELSE /\ response'[r].status = "service_error"
                  /\ buffered_transcripts' = buffered_transcripts]_vars

\* One live_transcribe that appended to a non-empty buffer and one whose transcribe
\* raised after it.
C10_Witness ==
    \E a, b, c \in Reqs :
        /\ a < b /\ b < c
        /\ handler[a] = "live_transcribe" /\ response[a].status = "ok"
        /\ handler[b] = "live_transcribe" /\ response[b].status = "ok"
        /\ handler[c] = "live_transcribe" /\ response[c].status = "service_error"
        /\ Len(asrCalls[c]) = 1
        /\ buffered_transcripts = <<response[a].transcript, response[b].transcript>>
        /\ response[a].transcript # response[b].transcript

====
